---- MODULE Spec2Model ----
(***************************************************************************)
(* Model of WellsAPIClient (src/wells_api_client.py): the transport call   *)
(* get_wells_data, the pagination loop get_all_wells_data and the filters  *)
(* filter_by_state, filter_by_status and filter_by_offshore, run against   *)
(* an upstream API that owns a dataset of well records; save_to_file and   *)
(* the command-line entry point main.                                      *)
(*                                                                         *)
(* Python values are modelled as follows.                                  *)
(*   - a str that the code parses or lower-cases is a sequence of one-     *)
(*     character strings; other strings (field names, formats) are TLA+    *)
(*     strings;                                                            *)
(*   - a float is an integer count of 1/Scale units;                       *)
(*   - a field value of a well record is a tagged value (num, text, null); *)
(*   - a well record (a dict) is a function from field names to values;    *)
(*   - what get_wells_data returns (dict, str, Element) and what the       *)
(*     operations return (the same, or a list) is a record with a type tag.*)
(***************************************************************************)
EXTENDS Integers, Sequences, FiniteSets, TLC

VARIABLES
    client,       \* the WellsAPIClient object: api_key, base_url
    dataset,      \* the records the upstream API holds
    pc,           \* "idle", "paging" (inside get_all_wells_data's loop), "done",
                  \* "exited" (main has ended)
    op,           \* the operation called last
    args,         \* its arguments
    all_records,  \* get_all_wells_data's list
    offset,       \* get_all_wells_data's offset
    exchanges,    \* the GETs of the current call: request, upstream outcome, result
    stdout,       \* the diagnostics printed by the current call
    ret,          \* what the call returned or raised
    prev,         \* the filter_by_offshore(True) call that came just before
                  \* the current call, kept while the current call is one too,
                  \* with the same format
    file,         \* the file at the path given to save_to_file
    output        \* what main wrote when it was the caller

vars == <<client, dataset, pc, op, args, all_records, offset, exchanges,
          stdout, ret, prev, file, output>>

(***************************************************************************)
(* Bounds of the model.                                                    *)
(***************************************************************************)
\* Largest upstream dataset used to exercise pagination.
MaxN == 5
\* Largest batch_size passed to get_all_wells_data.
MaxBatch == 2
\* Largest upstream dataset built freely from the sample records.
MaxRows == 1
\* How many records more than the requested limit a page may carry.
MaxExtra == 1
\* Fractional decimal digits a float keeps in the model.
FracDigits == 1

RECURSIVE Pow10(_)
Pow10(n) == IF n = 0 THEN 1 ELSE 10 * Pow10(n - 1)

Scale == Pow10(FracDigits)

Min(a, b) == IF a < b THEN a ELSE b

(***************************************************************************)
(* Field values and Python's float().                                      *)
(***************************************************************************)
Number(i) == [tag |-> "num", num |-> i * Scale, text |-> <<>>]
Text(s) == [tag |-> "text", num |-> 0, text |-> s]
Null == [tag |-> "null", num |-> 0, text |-> <<>>]

DigitChars == <<"0", "1", "2", "3", "4", "5", "6", "7", "8", "9">>

IsDigit(c) == \E i \in 1..10 : DigitChars[i] = c

DigitVal(c) == (CHOOSE i \in 1..10 : DigitChars[i] = c) - 1

IsDigits(s) == \A i \in 1..Len(s) : IsDigit(s[i])

RECURSIVE DigitsVal(_)
DigitsVal(s) ==
    IF s = <<>> THEN 0
    ELSE DigitsVal(SubSeq(s, 1, Len(s) - 1)) * 10 + DigitVal(s[Len(s)])

\* str.strip() as float() applies it: leading and trailing blanks removed.
RECURSIVE Strip(_)
Strip(s) ==
    IF s = <<>> THEN s
    ELSE IF s[1] = " " THEN Strip(Tail(s))
    ELSE IF s[Len(s)] = " " THEN Strip(SubSeq(s, 1, Len(s) - 1))
    ELSE s

\* The fractional digits f as a count of 1/Scale units (digits beyond
\* FracDigits are below the model's resolution).
FracVal(f) ==
    LET kept == SubSeq(f, 1, Min(Len(f), FracDigits))
    IN DigitsVal(kept) * Pow10(FracDigits - Len(kept))

\* An unsigned decimal literal: digits, optionally with one point, at least
\* one digit in all.
ParseUnsigned(s) ==
    IF \E i \in 1..Len(s) : s[i] = "."
    THEN LET p == CHOOSE i \in 1..Len(s) :
                    s[i] = "." /\ \A j \in 1..(i - 1) : s[j] # "."
             ip == SubSeq(s, 1, p - 1)
             fp == SubSeq(s, p + 1, Len(s))
         IN IF IsDigits(ip) /\ IsDigits(fp) /\ Len(ip) + Len(fp) >= 1
            THEN [ok |-> TRUE, val |-> DigitsVal(ip) * Scale + FracVal(fp)]
            ELSE [ok |-> FALSE, val |-> 0]
    ELSE IF Len(s) >= 1 /\ IsDigits(s)
         THEN [ok |-> TRUE, val |-> DigitsVal(s) * Scale]
         ELSE [ok |-> FALSE, val |-> 0]

\* float(str): blanks stripped, an optional sign, a decimal literal.
ParseFloat(s) ==
    LET t == Strip(s)
    IN IF t # <<>> /\ t[1] = "-"
       THEN LET r == ParseUnsigned(Tail(t))
            IN [ok |-> r.ok, val |-> 0 - r.val]
       ELSE IF t # <<>> /\ t[1] = "+"
            THEN ParseUnsigned(Tail(t))
            ELSE ParseUnsigned(t)

\* float(v) for a field value v: the number itself, the parsed text
\* (ValueError when it is no number), TypeError for None.
PyFloat(v) ==
    IF v.tag = "num" THEN [exc |-> "none", val |-> v.num]
    ELSE IF v.tag = "text"
         THEN LET r == ParseFloat(v.text)
              IN IF r.ok THEN [exc |-> "none", val |-> r.val]
                 ELSE [exc |-> "ValueError", val |-> 0]
         ELSE [exc |-> "TypeError", val |-> 0]

\* record.get(field, 0)
Get(record, field) ==
    IF field \in DOMAIN record THEN record[field] ELSE Number(0)

(***************************************************************************)
(* The upstream API: its dataset, and the well records used as samples.    *)
(***************************************************************************)
ErrorWord == <<"e", "r", "r", "o", "r">>

SampleRows == <<
    ("status" :> Text(<<"D", "r", "y">>))
        @@ ("gujarat" :> Text(<<"3", "5", "4", "7">>))
        @@ ("offshore" :> Text(<<"0">>))
        @@ ("assam___arunachal_pradesh" :> Number(12)),
    ("status" :> Text(<<"O", "i", "l">>))
        @@ ("gujarat" :> Text(<<"0">>))
        @@ ("offshore" :> Text(<<"5">>))
        @@ ("assam" :> Text(<<"7">>)),
    ("status" :> Text(<<"G", "a", "s">>))
        @@ ("gujarat" :> Number(0))
        @@ ("offshore" :> Number(3))
        @@ ("assam___arunachal_pradesh" :> Text(<<"0", ".", "5">>)),
    ("status" :> Text(<<"s", "h", "u", "t">>))
        @@ ("gujarat" :> Text(<<"-", "5">>))
        @@ ("offshore" :> Text(<<"-", "1">>)),
    ("status" :> Text(<<"n", "o", " ">> \o ErrorWord))
        @@ ("gujarat" :> Text(<<" ", "1", "2", " ">>)),
    ("status" :> Text(<<"t", "b", "d">>))
        @@ ("gujarat" :> Text(<<"a", "b", "c">>))
        @@ ("offshore" :> Text(<<"n", "a">>))
>>

\* The records of a dataset are told apart by their serial number.
WithIds(rows) ==
    [i \in 1..Len(rows) |-> ("sl_no" :> Number(i)) @@ rows[i]]

PageData(n) ==
    WithIds([i \in 1..n |-> SampleRows[((i - 1) % Len(SampleRows)) + 1]])

RECURSIVE SeqsUpTo(_, _)
SeqsUpTo(S, n) ==
    IF n = 0 THEN {<<>>}
    ELSE LET shorter == SeqsUpTo(S, n - 1)
         IN shorter \cup {Append(s, x) : s \in shorter, x \in S}

Datasets ==
    {PageData(n) : n \in 0..MaxN}
        \cup {WithIds(s) : s \in SeqsUpTo({SampleRows[i] : i \in 1..Len(SampleRows)}, MaxRows)}

\* A dataset of n records whose fields all coerce to numbers.
LongData(n) == WithIds([i \in 1..n |-> SampleRows[((i - 1) % 3) + 1]])

\* The records of data at positions from+1 .. from+len (fewer at the end).
Slice(data, from, len) ==
    SubSeq(data, from + 1, Min(from + len, Len(data)))

\* What the upstream does with one GET: the request fails (timeout, network,
\* or a non-success status, whose response may have a body), or it answers with a body that is well-formed or
\* not, carries the records of page, and in json puts them at top-level
\* `records` or at `result.records`.
Formats == {"json", "csv", "xml"}

Outcome(net, valid, shape, page) ==
    [net |-> net, valid |-> valid, shape |-> shape, page |-> page]

\* The lengths of the pages the upstream answers with: at most MaxExtra more
\* than the limit asked for; of the lengths beyond MaxN only those next to
\* the limit are told apart.
PageLengths(limit, n) ==
    {len \in 0..Min(limit + MaxExtra, n) : len <= MaxN \/ len >= limit - 1}

Pages(data, from, limit) ==
    {Slice(data, from, len) : len \in PageLengths(limit, Len(data))}

Outcomes(data, format, from, limit) ==
    {Outcome("fail", FALSE, "top", <<>>),
     Outcome("fail", TRUE, "top", Slice(data, from, limit))}
        \cup {Outcome("ok", FALSE, "top", <<>>) : x \in {format} \cap {"json", "xml"}}
        \cup {Outcome("ok", TRUE, shape, page) :
                shape \in IF format = "json" THEN {"top", "nested"} ELSE {"top"},
                page \in Pages(data, from, limit)}

(***************************************************************************)
(* Python values that get_wells_data and the operations return.            *)
(***************************************************************************)
NoError == [kind |-> "", names |-> <<>>]

Value(type, keys, error, records, result, count, raw) ==
    [type |-> type, keys |-> keys, error |-> error, records |-> records,
     result |-> result, count |-> count, raw |-> raw]

\* {"error": message}
ErrorDict(kind, names) ==
    Value("dict", {"error"}, [kind |-> kind, names |-> names], <<>>, <<>>, 0, <<>>)

\* The decoded JSON body: {"records": page, "count": n} or
\* {"result": {"records": page}}.
JsonBody(shape, page) ==
    IF shape = "top"
    THEN Value("dict", {"records", "count"}, NoError, page, <<>>, Len(page), <<>>)
    ELSE Value("dict", {"result"}, NoError, <<>>, page, 0, <<>>)

\* A CSV text, and a parsed XML tree, carrying the records of page.
CsvText(page) == Value("str", {}, NoError, page, <<>>, 0, <<>>)
XmlElement(page) == Value("element", {}, NoError, page, <<>>, 0, <<>>)

\* A list: of records (json) or of raw payloads (csv, xml).
ListOf(records, raw) == Value("list", {}, NoError, records, <<>>, 0, raw)

None == Value("none", {}, NoError, <<>>, <<>>, 0, <<>>)

Returned(value) == [exc |-> "none", value |-> value]
Raised(exc) == [exc |-> exc, value |-> None]

IsSubstring(w, s) ==
    \E i \in 0..(Len(s) - Len(w)) : SubSeq(s, i + 1, i + Len(w)) = w

\* Whether the text rendering the records holds the word "error".
TextHasError(rows) ==
    \E i \in 1..Len(rows) : \E f \in DOMAIN rows[i] :
        rows[i][f].tag = "text" /\ IsSubstring(ErrorWord, rows[i][f].text)

\* `"error" in v`: a key of a dict, a substring of a str, an element of a
\* list, a child of an Element.
HasError(v) ==
    IF v.type = "dict" THEN "error" \in v.keys
    ELSE IF v.type = "str" THEN TextHasError(v.records)
    ELSE FALSE

(***************************************************************************)
(* get_wells_data                                                          *)
(***************************************************************************)
DefaultApiKey == "579b464db66ec23bdd000001cdd3946e44ce4aad7209ff7b23ac571b"
BaseUrl == "https://api.data.gov.in/resource/0b344af7-b389-4e37-bf49-b4f1e59bbc49"
ApiKeys == {DefaultApiKey, "custom-key"}

DefaultOffset == 0
DefaultLimit == 10
FilterLimit == 1000

NoFilters == [k \in {} |-> ""]

\* params[f"filters[{key}]"] = value, for every entry of filters
FilterParams(filters) ==
    [p \in {"filters[" \o k \o "]" : k \in DOMAIN filters} |->
        filters[CHOOSE k \in DOMAIN filters : p = "filters[" \o k \o "]"]]

\* Variant of the GET: the limit passed by the caller is not sent, the
\* default is.
RequestWithDefaultLimit(c, format_type, off, limit, filters) ==
    [url |-> c.base_url, api_key |-> c.api_key, format |-> format_type,
     offset |-> off, limit |-> DefaultLimit, filters |-> FilterParams(filters)]

\* The GET that get_wells_data issues.
Request(c, format_type, off, limit, filters) ==
    [url |-> c.base_url, api_key |-> c.api_key, format |-> format_type,
     offset |-> off, limit |-> limit, filters |-> FilterParams(filters)]

\* Variant of get_wells_data: the status of the response is not checked, a
\* body that came with a failure is decoded.
GetWellsDataTrustsBody(format_type, outcome) ==
    IF outcome.net = "fail" /\ ~outcome.valid
    THEN [result |-> Returned(ErrorDict("RequestException", <<>>)),
          printed |-> <<"Error making API request">>]
    ELSE IF format_type = "json"
    THEN IF outcome.valid
         THEN [result |-> Returned(JsonBody(outcome.shape, outcome.page)),
               printed |-> <<>>]
         ELSE [result |-> Returned(ErrorDict("JSON decode error", <<>>)),
               printed |-> <<"Error parsing JSON response", "Response text">>]
    ELSE IF format_type = "xml"
    THEN IF outcome.valid
         THEN [result |-> Returned(XmlElement(outcome.page)), printed |-> <<>>]
         ELSE [result |-> Raised("ParseError"), printed |-> <<>>]
    ELSE [result |-> Returned(CsvText(outcome.page)), printed |-> <<>>]

\* Variant of get_wells_data: the JSON parser's exception is not caught.
GetWellsDataRaisesOnBadJson(format_type, outcome) ==
    IF outcome.net = "fail"
    THEN [result |-> Returned(ErrorDict("RequestException", <<>>)),
          printed |-> <<"Error making API request">>]
    ELSE IF format_type = "json"
    THEN IF outcome.valid
         THEN [result |-> Returned(JsonBody(outcome.shape, outcome.page)),
               printed |-> <<>>]
         ELSE [result |-> Raised("JSONDecodeError"), printed |-> <<>>]
    ELSE IF format_type = "xml"
    THEN IF outcome.valid
         THEN [result |-> Returned(XmlElement(outcome.page)), printed |-> <<>>]
         ELSE [result |-> Raised("ParseError"), printed |-> <<>>]
    ELSE [result |-> Returned(CsvText(outcome.page)), printed |-> <<>>]

\* What get_wells_data returns or raises for the upstream's outcome, and
\* what it prints.
GetWellsData(format_type, outcome) ==
    IF outcome.net = "fail"
    THEN [result |-> Returned(ErrorDict("RequestException", <<>>)),
          printed |-> <<"Error making API request">>]
    ELSE IF format_type = "json"
    THEN IF outcome.valid
         THEN [result |-> Returned(JsonBody(outcome.shape, outcome.page)),
               printed |-> <<>>]
         ELSE [result |-> Returned(ErrorDict("JSON decode error", <<>>)),
               printed |-> <<"Error parsing JSON response", "Response text">>]
    ELSE IF format_type = "xml"
    THEN IF outcome.valid
         THEN [result |-> Returned(XmlElement(outcome.page)), printed |-> <<>>]
         ELSE [result |-> Raised("ParseError"), printed |-> <<>>]
    ELSE [result |-> Returned(CsvText(outcome.page)), printed |-> <<>>]

Exchange(request, outcome, result) ==
    [request |-> request, outcome |-> outcome, result |-> result]

(***************************************************************************)
(* get_all_wells_data: one iteration of its loop                           *)
(***************************************************************************)
\* response.get("result", {}).get("records", [])
\* Variant of the page's records: read at either depth.
PageRecordsAtEitherDepth(response) ==
    IF "result" \in response.keys THEN response.result ELSE response.records

PageRecords(response) ==
    IF "result" \in response.keys THEN response.result ELSE <<>>

\* Variants of the short-page test: a full page also ends the loop; no page
\* ends the loop.
ShortPageOrFull(records, batch_size) == Len(records) <= batch_size
ShortPageNever(records, batch_size) == FALSE

\* len(records) < batch_size
ShortPage(records, batch_size) == Len(records) < batch_size

\* offset += batch_size
NextOffset(off, batch_size) == off + batch_size

\* response['error'], evaluated to print the failure: the entry of a dict;
\* a str cannot be indexed by a str (TypeError).
ErrorLookup(response) == IF response.type = "dict" THEN "none" ELSE "TypeError"

\* Variant of the loop body: a failed page discards the records accumulated.
PageStepDropsOnError(all, off, batch_size, format_type, response) ==
    IF HasError(response)
    THEN [all_records |-> ListOf(<<>>, <<>>), offset |-> off, stop |-> TRUE,
          exc |-> ErrorLookup(response),
          printed |-> IF ErrorLookup(response) = "none"
                      THEN <<"Error at offset">> ELSE <<>>]
    ELSE IF format_type = "json"
    THEN LET records == PageRecords(response)
         IN IF records = <<>>
            THEN [all_records |-> all, offset |-> off, stop |-> TRUE,
                  exc |-> "none", printed |-> <<>>]
            ELSE [all_records |-> ListOf(all.records \o records, all.raw),
                  offset |-> NextOffset(off, batch_size),
                  stop |-> ShortPage(records, batch_size),
                  exc |-> "none", printed |-> <<>>]
    ELSE [all_records |-> ListOf(all.records, Append(all.raw, response)),
          offset |-> off, stop |-> TRUE, exc |-> "none", printed |-> <<>>]

\* Variant of the loop body: a page is put in front of the records
\* accumulated.
PageStepPrepends(all, off, batch_size, format_type, response) ==
    IF HasError(response)
    THEN [all_records |-> all, offset |-> off, stop |-> TRUE,
          exc |-> ErrorLookup(response),
          printed |-> IF ErrorLookup(response) = "none"
                      THEN <<"Error at offset">> ELSE <<>>]
    ELSE IF format_type = "json"
    THEN LET records == PageRecords(response)
         IN IF records = <<>>
            THEN [all_records |-> all, offset |-> off, stop |-> TRUE,
                  exc |-> "none", printed |-> <<>>]
            ELSE [all_records |-> ListOf(records \o all.records, all.raw),
                  offset |-> NextOffset(off, batch_size),
                  stop |-> ShortPage(records, batch_size),
                  exc |-> "none", printed |-> <<>>]
    ELSE [all_records |-> ListOf(all.records, Append(all.raw, response)),
          offset |-> off, stop |-> TRUE, exc |-> "none", printed |-> <<>>]

\* The body of the loop after get_wells_data has returned response: the new
\* list and offset, whether the loop ends, and what is printed.
PageStep(all, off, batch_size, format_type, response) ==
    IF HasError(response)
    THEN [all_records |-> all, offset |-> off, stop |-> TRUE,
          exc |-> ErrorLookup(response),
          printed |-> IF ErrorLookup(response) = "none"
                      THEN <<"Error at offset">> ELSE <<>>]
    ELSE IF format_type = "json"
    THEN LET records == PageRecords(response)
         IN IF records = <<>>
            THEN [all_records |-> all, offset |-> off, stop |-> TRUE,
                  exc |-> "none", printed |-> <<>>]
            ELSE [all_records |-> ListOf(all.records \o records, all.raw),
                  offset |-> NextOffset(off, batch_size),
                  stop |-> ShortPage(records, batch_size),
                  exc |-> "none", printed |-> <<>>]
    ELSE [all_records |-> ListOf(all.records, Append(all.raw, response)),
          offset |-> off, stop |-> TRUE, exc |-> "none", printed |-> <<>>]

(***************************************************************************)
(* filter_by_state, filter_by_status, filter_by_offshore                   *)
(***************************************************************************)
UpperChars == <<"A", "B", "C", "D", "E", "F", "G", "H", "I", "J", "K", "L", "M", "N", "O", "P", "Q", "R", "S", "T", "U", "V", "W", "X", "Y", "Z">>
LowerChars == <<"a", "b", "c", "d", "e", "f", "g", "h", "i", "j", "k", "l", "m", "n", "o", "p", "q", "r", "s", "t", "u", "v", "w", "x", "y", "z">>

LowerChar(c) ==
    IF \E i \in 1..Len(UpperChars) : UpperChars[i] = c
    THEN LowerChars[CHOOSE i \in 1..Len(UpperChars) : UpperChars[i] = c]
    ELSE c

\* str.lower()
Lower(s) == [i \in 1..Len(s) |-> LowerChar(s[i])]

\* The dict state_filters, in the order it is written.
state_filters == <<
    [key |-> <<"g", "u", "j", "a", "r", "a", "t">>,
     field |-> "gujarat"],
    [key |-> <<"r", "a", "j", "a", "s", "t", "h", "a", "n">>,
     field |-> "rajasthan"],
    [key |-> <<"a", "s", "s", "a", "m">>,
     field |-> "assam___arunachal_pradesh"],
    [key |-> <<"t", "r", "i", "p", "u", "r", "a">>,
     field |-> "tripura"],
    [key |-> <<"a", "n", "d", "h", "r", "a", "_", "p", "r", "a", "d", "e", "s", "h">>,
     field |-> "andhra_pradesh"],
    [key |-> <<"t", "a", "m", "i", "l", "n", "a", "d", "u">>,
     field |-> "tamilnadu"],
    [key |-> <<"w", "e", "s", "t", "_", "b", "e", "n", "g", "a", "l">>,
     field |-> "west_bangal__cbm_"],
    [key |-> <<"j", "h", "a", "r", "k", "h", "a", "n", "d">>,
     field |-> "jharkhand__cbm_"],
    [key |-> <<"m", "a", "d", "h", "y", "a", "_", "p", "r", "a", "d", "e", "s", "h">>,
     field |-> "madhya_pradesh__cbm_"],
    [key |-> <<"o", "t", "h", "e", "r", "_", "s", "t", "a", "t", "e", "s">>,
     field |-> "other_state__up_hp_mp_bihar__punjab_jk_wb_"]
>>

\* Variant of the key list: the last key is left out.
StateKeysButLast ==
    [i \in 1..(Len(state_filters) - 1) |-> state_filters[i].key]

\* list(state_filters.keys())
StateKeys == [i \in 1..Len(state_filters) |-> state_filters[i].key]

\* key in state_filters
IsStateKey(k) == \E i \in 1..Len(state_filters) : state_filters[i].key = k

\* state_filters[key]
StateField(k) ==
    state_filters[CHOOSE i \in 1..Len(state_filters) : state_filters[i].key = k].field

\* Whether a record passes the comparison the comprehension makes on x =
\* float(record.get(field, 0)): x > 0 ("positive") or x == 0 ("zero").
Passes(x, test) == IF test = "positive" THEN x > 0 ELSE x = 0

\* [record for record in records if float(record.get(field, 0)) <test>]:
\* the records kept, or the exception of the first record float() rejects.
FilterRecords(records, field, test) ==
    LET bad == {i \in 1..Len(records) :
                    PyFloat(Get(records[i], field)).exc # "none"}
    IN IF bad # {}
       THEN Raised(PyFloat(Get(records[CHOOSE i \in bad : \A j \in bad : i <= j],
                               field)).exc)
       ELSE Returned(ListOf(
                SelectSeq(records,
                          LAMBDA r : Passes(PyFloat(Get(r, field)).val, test)),
                <<>>))

\* all_data["records"] = filtered_records; all_data["count"] = len(...)
WithRecords(all_data, filtered) ==
    [all_data EXCEPT !.keys = @ \cup {"records", "count"},
                     !.records = filtered,
                     !.count = Len(filtered)]

\* filter_by_state from the validated key on: all_data is what
\* get_wells_data returned.
FilterByState(state_name, format_type, all_data) ==
    IF HasError(all_data) THEN Returned(all_data)
    ELSE IF format_type = "json"
    THEN LET f == FilterRecords(all_data.records, StateField(Lower(state_name)),
                                "positive")
         IN IF f.exc # "none" THEN f
            ELSE Returned(WithRecords(all_data, f.value.records))
    ELSE Returned(all_data)

\* The failure filter_by_state returns for a name that is no key.
InvalidState ==
    ErrorDict("Invalid state name. Available states: ", StateKeys)

\* Variant of filter_by_offshore: the predicate is applied to the rows of
\* every format.
FilterByOffshoreInEveryFormat(offshore, format_type, all_data) ==
    IF HasError(all_data) THEN Returned(all_data)
    ELSE LET f == FilterRecords(all_data.records, "offshore",
                                IF offshore THEN "positive" ELSE "zero")
         IN IF f.exc # "none" THEN f
            ELSE IF format_type = "json"
            THEN Returned(WithRecords(all_data, f.value.records))
            ELSE Returned([all_data EXCEPT !.records = f.value.records])

\* filter_by_offshore once get_wells_data has returned all_data.
FilterByOffshore(offshore, format_type, all_data) ==
    IF HasError(all_data) THEN Returned(all_data)
    ELSE IF format_type = "json"
    THEN LET f == FilterRecords(all_data.records, "offshore",
                                IF offshore THEN "positive" ELSE "zero")
         IN IF f.exc # "none" THEN f
            ELSE Returned(WithRecords(all_data, f.value.records))
    ELSE Returned(all_data)

\* filters = {"status": status}
StatusFilters(status) == [k \in {"status"} |-> status]

\* Variant of filter_by_status: a JSON result is filtered again on the client,
\* as the other two filters do.
FilterByStatusLocally(result) ==
    IF result.exc = "none" /\ result.value.type = "dict" /\ ~HasError(result.value)
    THEN Returned(WithRecords(result.value,
            SelectSeq(result.value.records,
                      LAMBDA r : Get(r, "status") = Text(<<"D", "r", "y">>))))
    ELSE result

\* filter_by_status: what it makes of get_wells_data's result.
FilterByStatus(result) == result

\* The client object after filter_by_offshore has run: the method assigns
\* nothing to self. The variant has it overwrite the key.
SelfAfterOffshoreRekeyed(c) == [c EXCEPT !.api_key = "used"]

SelfAfterOffshore(c) == c

(***************************************************************************)
(* save_to_file                                                            *)
(*                                                                         *)
(* The data handed to save_to_file is a tree of nodes: numbers, strings,   *)
(* lists, dicts (a sequence of key/value entries, in insertion order) and  *)
(* parsed XML trees.                                                       *)
(***************************************************************************)
PyNode(t, n, s, items) == [t |-> t, n |-> n, s |-> s, items |-> items]

PyInt(i) == PyNode("num", i * Scale, <<>>, <<>>)
PyNum(units) == PyNode("num", units, <<>>, <<>>)
PyStr(s) == PyNode("str", 0, s, <<>>)
PyList(items) == PyNode("list", 0, <<>>, items)
PyEntry(k, v) == PyNode("entry", 0, <<>>, <<k, v>>)
PyDict(entries) == PyNode("dict", 0, <<>>, entries)
PyElement == PyNode("element", 0, <<>>, <<>>)
PyNone == PyNode("none", 0, <<>>, <<>>)

\* dict.keys(), and dict.get(key, default)
Keys(d) == [i \in 1..Len(d.items) |-> d.items[i].items[1]]
KeySet(d) == {d.items[i].items[1] : i \in 1..Len(d.items)}
Lookup(d, key, default) ==
    IF key \in KeySet(d)
    THEN d.items[CHOOSE i \in 1..Len(d.items) : d.items[i].items[1] = key].items[2]
    ELSE default

\* str(n) for a number: the digits of an int, and of a float its fraction
\* too (a number without fraction is taken for an int).
RECURSIVE NatText(_)
NatText(n) ==
    IF n < 10 THEN <<DigitChars[n + 1]>>
    ELSE NatText(n \div 10) \o <<DigitChars[(n % 10) + 1]>>

RECURSIVE FixedDigits(_, _)
FixedDigits(f, k) ==
    IF k = 0 THEN <<>>
    ELSE FixedDigits(f \div 10, k - 1) \o <<DigitChars[(f % 10) + 1]>>

RECURSIVE StripZeros(_)
StripZeros(s) ==
    IF s # <<>> /\ s[Len(s)] = "0" THEN StripZeros(SubSeq(s, 1, Len(s) - 1))
    ELSE s

NumText(units) ==
    LET a == IF units < 0 THEN 0 - units ELSE units
        sign == IF units < 0 THEN <<"-">> ELSE <<>>
        frac == a % Scale
    IN sign \o NatText(a \div Scale)
            \o (IF frac = 0 THEN <<>>
                ELSE <<".">> \o StripZeros(FixedDigits(frac, FracDigits)))

\* The text the csv writer puts in a cell: a str as it is, str(n) for a
\* number.
CellText(v) == IF v.t = "str" THEN v.s ELSE NumText(v.n)

\* The file at the path given to save_to_file: absent, or created with the
\* content that reached it. A CSV content is its header and rows of cells; a
\* JSON content is its text; str(data) is kept as the data it renders.
File(form, header, rows, text, str) ==
    [form |-> form, header |-> header, rows |-> rows, text |-> text, str |-> str]

NoFile == File("absent", <<>>, <<>>, <<>>, PyNone)
CsvFile(header, rows) == File("csv", header, rows, <<>>, PyNone)
StrFile(data) == File("str", <<>>, <<>>, <<>>, data)

\* What DictWriter.writerows does with the rows after fieldnames were taken
\* from the first: the rows written before one that is no dict
\* (AttributeError) or has a key that is no fieldname (ValueError).
RowError(row, fieldnames) ==
    IF row.t # "dict" THEN "AttributeError"
    ELSE IF \E k \in KeySet(row) : \A i \in 1..Len(fieldnames) : fieldnames[i] # k
    THEN "ValueError"
    ELSE "none"

RowCells(row, fieldnames) ==
    [i \in 1..Len(fieldnames) |->
        IF fieldnames[i] \in KeySet(row)
        THEN CellText(Lookup(row, fieldnames[i], PyNone))
        ELSE <<>>]

RECURSIVE WriteRows(_, _, _)
WriteRows(rows, fieldnames, written) ==
    IF rows = <<>> THEN [exc |-> "none", rows |-> written]
    ELSE IF RowError(rows[1], fieldnames) # "none"
    THEN [exc |-> RowError(rows[1], fieldnames), rows |-> written]
    ELSE WriteRows(Tail(rows), fieldnames,
                   Append(written, RowCells(rows[1], fieldnames)))

\* isinstance(data, list) and data and isinstance(data[0], dict)
IsRecordList(data) ==
    data.t = "list" /\ data.items # <<>> /\ data.items[1].t = "dict"

\* The csv branch.
SaveCsv(data) ==
    IF IsRecordList(data)
    THEN LET fieldnames == Keys(data.items[1])
             w == WriteRows(data.items, fieldnames, <<>>)
         IN [exc |-> w.exc,
             file |-> CsvFile([i \in 1..Len(fieldnames) |-> CellText(fieldnames[i])],
                              w.rows)]
    ELSE [exc |-> "none", file |-> StrFile(data)]

\* json.dump(data, f, indent=2, ensure_ascii=False): the text written.
Indent(level) == [i \in 1..(2 * level) |-> " "]

\* Variant of the escaping: only the quote is escaped.
RECURSIVE EscapeQuotesOnly(_)
EscapeQuotesOnly(s) ==
    IF s = <<>> THEN <<>>
    ELSE (IF s[1] = "\"" THEN <<"\\", "\"">> ELSE <<s[1]>>)
            \o EscapeQuotesOnly(Tail(s))

\* A string's characters as the encoder escapes them.
RECURSIVE Escape(_)
Escape(s) ==
    IF s = <<>> THEN <<>>
    ELSE (IF s[1] = "\"" THEN <<"\\", "\"">>
          ELSE IF s[1] = "\\" THEN <<"\\", "\\">>
          ELSE IF s[1] = "\n" THEN <<"\\", "n">>
          ELSE <<s[1]>>) \o Escape(Tail(s))

JsonString(s) == <<"\"">> \o Escape(s) \o <<"\"">>

\* A dict key as the encoder writes it: a str as it is, a number as str(n).
KeyText(k) == IF k.t = "str" THEN k.s ELSE NumText(k.n)

\* What the encoder accepts: numbers, strings, None, lists and dicts of
\* these, a dict's keys being strings or numbers; anything else is a
\* TypeError.
RECURSIVE Serializable(_)
Serializable(node) ==
    IF node.t \in {"num", "str", "none"} THEN TRUE
    ELSE IF node.t = "list"
    THEN \A i \in 1..Len(node.items) : Serializable(node.items[i])
    ELSE IF node.t = "dict"
    THEN \A i \in 1..Len(node.items) :
            /\ node.items[i].items[1].t \in {"str", "num"}
            /\ Serializable(node.items[i].items[2])
    ELSE FALSE

RECURSIVE JsonDump(_, _)
RECURSIVE DumpItems(_, _)
JsonDump(node, level) ==
    IF node.t = "num" THEN NumText(node.n)
    ELSE IF node.t = "str" THEN JsonString(node.s)
    ELSE IF node.t = "none" THEN <<"n", "u", "l", "l">>
    ELSE IF node.t = "entry"
    THEN JsonString(KeyText(node.items[1])) \o <<":", " ">>
            \o JsonDump(node.items[2], level)
    ELSE LET open == IF node.t = "list" THEN "[" ELSE "{"
             close == IF node.t = "list" THEN "]" ELSE "}"
         IN IF node.items = <<>> THEN <<open, close>>
            ELSE <<open>> \o DumpItems(node.items, level + 1)
                    \o <<"\n">> \o Indent(level) \o <<close>>

DumpItems(items, level) ==
    <<"\n">> \o Indent(level) \o JsonDump(items[1], level)
        \o (IF Len(items) > 1 THEN <<",">> \o DumpItems(Tail(items), level)
            ELSE <<>>)

\* The json parser (json.load, response.json()): text to data.
IsWhitespace(c) == c \in {" ", "\n"}

RECURSIVE SkipWhitespace(_, _)
SkipWhitespace(s, i) ==
    IF i <= Len(s) /\ IsWhitespace(s[i]) THEN SkipWhitespace(s, i + 1) ELSE i

Unescape(c) == IF c = "n" THEN "\n" ELSE c

\* The string whose opening quote is just before position i.
RECURSIVE ScanString(_, _, _)
ScanString(s, i, acc) ==
    IF s[i] = "\"" THEN [node |-> PyStr(acc), next |-> i + 1]
    ELSE IF s[i] = "\\"
    THEN ScanString(s, i + 2, Append(acc, Unescape(s[i + 1])))
    ELSE ScanString(s, i + 1, Append(acc, s[i]))

RECURSIVE NumberEnd(_, _)
NumberEnd(s, i) ==
    IF i <= Len(s) /\ (IsDigit(s[i]) \/ s[i] \in {"-", "."})
    THEN NumberEnd(s, i + 1) ELSE i

\* d[key] = value on the dict being built: a key met again keeps its place
\* and takes the new value.
DictSet(entries, key, value) ==
    IF \E i \in 1..Len(entries) : entries[i].items[1] = key
    THEN [i \in 1..Len(entries) |->
            IF entries[i].items[1] = key THEN PyEntry(key, value)
            ELSE entries[i]]
    ELSE Append(entries, PyEntry(key, value))

RECURSIVE ParseValue(_, _)
RECURSIVE ParseItems(_, _, _)
RECURSIVE ParseEntries(_, _, _)
ParseValue(s, from) ==
    LET i == SkipWhitespace(s, from)
    IN IF s[i] = "\"" THEN ScanString(s, i + 1, <<>>)
       ELSE IF s[i] = "[" THEN ParseItems(s, i + 1, <<>>)
       ELSE IF s[i] = "{" THEN ParseEntries(s, i + 1, <<>>)
       ELSE IF s[i] = "n" THEN [node |-> PyNone, next |-> i + 4]
       ELSE LET e == NumberEnd(s, i)
            IN [node |-> PyNum(ParseFloat(SubSeq(s, i, e - 1)).val),
                next |-> e]

ParseItems(s, from, acc) ==
    LET i == SkipWhitespace(s, from)
    IN IF s[i] = "]" THEN [node |-> PyList(acc), next |-> i + 1]
       ELSE IF s[i] = "," THEN ParseItems(s, i + 1, acc)
       ELSE LET v == ParseValue(s, i)
            IN ParseItems(s, v.next, Append(acc, v.node))

ParseEntries(s, from, acc) ==
    LET i == SkipWhitespace(s, from)
    IN IF s[i] = "}" THEN [node |-> PyDict(acc), next |-> i + 1]
       ELSE IF s[i] = "," THEN ParseEntries(s, i + 1, acc)
       ELSE LET k == ScanString(s, i + 1, <<>>)
                colon == SkipWhitespace(s, k.next)
                v == ParseValue(s, colon + 1)
            IN ParseEntries(s, v.next, DictSet(acc, k.node, v.node))

JsonLoad(text) == ParseValue(text, 1).node

\* a == b as Python compares the two: lists item by item, dicts by their
\* entries whatever the order.
RECURSIVE PyEqual(_, _)
PyEqual(a, b) ==
    IF a.t # b.t THEN FALSE
    ELSE IF a.t = "num" THEN a.n = b.n
    ELSE IF a.t = "str" THEN a.s = b.s
    ELSE IF a.t = "none" THEN TRUE
    ELSE IF a.t \in {"list", "entry"}
    THEN /\ Len(a.items) = Len(b.items)
         /\ \A i \in 1..Len(a.items) : PyEqual(a.items[i], b.items[i])
    ELSE IF a.t = "dict"
    THEN /\ Len(a.items) = Len(b.items)
         /\ \A i \in 1..Len(a.items) : \E j \in 1..Len(b.items) :
                PyEqual(a.items[i], b.items[j])
    ELSE FALSE

JsonFile(text) == File("json", <<>>, <<>>, text, PyNone)
\* A file that was opened for writing and did not get all of its content.
PartialFile == File("partial", <<>>, <<>>, <<>>, PyNone)

\* The json branch.
SaveJson(data) ==
    IF Serializable(data)
    THEN [exc |-> "none", file |-> JsonFile(JsonDump(data, 0))]
    ELSE [exc |-> "TypeError", file |-> PartialFile]

\* What the file system does to the call: nothing, or open() fails, or a
\* write fails after open().
IoOutcomes == {"ok", "open_fails", "write_fails"}

\* The body of the try block: the file left behind and the exception that
\* ended the block, if any.
WriteFile(data, format_type, io) ==
    IF io = "open_fails" THEN [exc |-> "OSError", file |-> NoFile]
    ELSE IF io = "write_fails" THEN [exc |-> "OSError", file |-> PartialFile]
    ELSE IF format_type = "json" THEN SaveJson(data)
    ELSE IF format_type = "csv" THEN SaveCsv(data)
    ELSE [exc |-> "none", file |-> StrFile(data)]

SaveToFileUnguarded(data, format_type, io) ==
    LET w == WriteFile(data, format_type, io)
    IN [file |-> w.file,
        printed |-> IF w.exc = "none" THEN <<"Data saved to">> ELSE <<>>,
        exc |-> w.exc]

\* save_to_file(data, filename, format_type)
SaveToFile(data, format_type, io) ==
    LET w == WriteFile(data, format_type, io)
    IN [file |-> w.file,
        printed |-> IF w.exc = "none" THEN <<"Data saved to">>
                    ELSE <<"Error saving file">>,
        exc |-> "none"]

(***************************************************************************)
(* main                                                                    *)
(***************************************************************************)
\* The values the operations return, as the data handed to save_to_file.
\* A name that is not examined character by character is one token of the
\* text; a CSV text and a parsed XML tree are kept as the records they carry.
FieldOrder ==
    <<"sl_no", "status", "gujarat", "offshore", "assam",
      "assam___arunachal_pradesh">>

Name(token) == PyStr(<<token>>)

FieldToPy(v) ==
    IF v.tag = "num" THEN PyNum(v.num)
    ELSE IF v.tag = "text" THEN PyStr(v.text)
    ELSE PyNone

RECURSIVE RecordEntries(_, _)
RecordEntries(record, fields) ==
    IF fields = <<>> THEN <<>>
    ELSE (IF fields[1] \in DOMAIN record
          THEN <<PyEntry(Name(fields[1]), FieldToPy(record[fields[1]]))>>
          ELSE <<>>) \o RecordEntries(record, Tail(fields))

RecordToPy(record) == PyDict(RecordEntries(record, FieldOrder))

RecordsToPy(records) == PyList([i \in 1..Len(records) |-> RecordToPy(records[i])])

ToPy(v) ==
    IF v.type = "dict"
    THEN PyDict((IF "records" \in v.keys
                 THEN <<PyEntry(Name("records"), RecordsToPy(v.records))>>
                 ELSE <<>>)
             \o (IF "count" \in v.keys
                 THEN <<PyEntry(Name("count"), PyInt(v.count))>> ELSE <<>>)
             \o (IF "result" \in v.keys
                 THEN <<PyEntry(Name("result"),
                                PyDict(<<PyEntry(Name("records"),
                                                 RecordsToPy(v.result))>>))>>
                 ELSE <<>>))
    ELSE IF v.type = "list"
    THEN IF v.raw = <<>> THEN RecordsToPy(v.records)
         ELSE PyList([i \in 1..Len(v.raw) |->
                        PyNode(v.raw[i].type, 0, <<>>,
                               RecordsToPy(v.raw[i].records).items)])
    ELSE IF v.type = "none" THEN PyNone
    ELSE PyNode(v.type, 0, <<>>, RecordsToPy(v.records).items)

\* What main wrote: nothing, the data printed, or the data saved; the lines
\* it printed besides; the exception that ended it, if any.
Output(kind, data, printed, exc) ==
    [kind |-> kind, data |-> data, printed |-> printed, exc |-> exc]

NoOutput == Output("none", None, <<>>, "none")

\* The branches of main that test the result themselves.
TestsResult(selected) == selected \in {"filter_by_state", "filter_by_status"}

\* main once the operation it selected has returned or raised result:
\* the error tests, then the data saved or printed.
Main(selected, result, save, format_type, io) ==
    IF result.exc # "none"
    THEN [output |-> Output("none", None, <<>>, result.exc), file |-> NoFile]
    ELSE IF HasError(result.value)
    THEN [output |->
            IF ErrorLookup(result.value) # "none"
            THEN Output("none", None, <<>>, ErrorLookup(result.value))
            ELSE Output("none", None,
                        IF TestsResult(selected) THEN <<"error">>
                        ELSE <<"API Error">>, "none"),
          file |-> NoFile]
    ELSE IF save
    THEN LET s == SaveToFile(ToPy(result.value), format_type, io)
         IN [output |-> Output("saved", result.value, s.printed, s.exc),
             file |-> s.file]
    ELSE [output |-> Output("printed", result.value, <<>>, "none"),
          file |-> NoFile]

(***************************************************************************)
(* Inputs                                                                  *)
(***************************************************************************)
BatchSizes == 1..MaxBatch

StateNames == {
    <<"g", "u", "j", "a", "r", "a", "t">>,
    <<"G", "u", "j", "a", "r", "a", "t">>,
    <<"a", "s", "s", "a", "m">>,
    <<"A", "S", "S", "A", "M">>,
    <<"w", "e", "s", "t", "_", "b", "e", "n", "g", "a", "l">>,
    <<"o", "t", "h", "e", "r", "_", "s", "t", "a", "t", "e", "s">>,
    <<"a", "t", "l", "a", "n", "t", "i", "s">>,
    <<"a", "s", "s", "a", "m", "_", "_", "_", "a", "r", "u", "n", "a", "c", "h", "a", "l", "_", "p", "r", "a", "d", "e", "s", "h">>,
    <<>>
}

Statuses == {"Dry", "Oil"}

\* offset and limit passed to get_wells_data when it is called directly.
Offsets == {DefaultOffset, 1}
Limits == {1, DefaultLimit}

NoArgs ==
    [format_type |-> "json", batch_size |-> 0, state_name |-> <<>>,
     status |-> "", offshore |-> FALSE, offset |-> 0, limit |-> 0,
     data |-> PyNone, io |-> "ok"]

\* get_all_wells_data's default batch_size, which main's --all uses.
DefaultBatch == 100

\* Data given to save_to_file.
KeyA == PyStr(<<"a">>)
KeyB == PyStr(<<"b">>)

SaveData == {
    \* records with the same fields, in the same order and not
    PyList(<<PyDict(<<PyEntry(KeyA, PyInt(1)), PyEntry(KeyB, PyStr(<<"x">>))>>),
             PyDict(<<PyEntry(KeyA, PyNum(0 - 5)), PyEntry(KeyB, PyStr(<<"y", ",">>))>>)>>),
    PyList(<<PyDict(<<PyEntry(KeyA, PyInt(1)), PyEntry(KeyB, PyInt(2))>>),
             PyDict(<<PyEntry(KeyB, PyInt(3)), PyEntry(KeyA, PyInt(4))>>)>>),
    \* a record lacking a field of the first, a record with one more
    PyList(<<PyDict(<<PyEntry(KeyA, PyInt(1)), PyEntry(KeyB, PyStr(<<"x">>))>>),
             PyDict(<<PyEntry(KeyA, PyInt(2))>>)>>),
    PyList(<<PyDict(<<PyEntry(KeyA, PyInt(1))>>),
             PyDict(<<PyEntry(KeyA, PyInt(2)), PyEntry(KeyB, PyStr(<<"y">>))>>)>>),
    \* a record followed by a string
    PyList(<<PyDict(<<PyEntry(KeyA, PyInt(1))>>), PyStr(<<"x">>)>>),
    \* other shapes
    PyList(<<>>),
    PyList(<<PyStr(<<"a", "b">>), PyInt(10)>>),
    PyDict(<<>>),
    PyDict(<<PyEntry(KeyA,
                     PyList(<<PyDict(<<PyEntry(KeyB, PyStr(<<"q", "\"", "\\", "\n", " ">>))>>),
                              PyList(<<>>), PyNum(5)>>)),
             PyEntry(KeyB, PyInt(0))>>),
    PyStr(<<"a", "b">>),
    PyInt(120),
    \* a dict whose key is a number
    PyDict(<<PyEntry(PyInt(1), PyStr(<<"x">>))>>),
    \* a parsed XML tree, alone and in a list
    PyElement,
    PyList(<<PyInt(1), PyElement>>)
}

\* The calls main makes: --state with a non-empty name, --status,
\* --offshore, --onshore, --all with the default batch size, and the plain
\* fetch.
MainSelects ==
    \/ op = "filter_by_state" /\ args.state_name # <<>>
    \/ op \in {"filter_by_status", "filter_by_offshore", "get_wells_data"}
    \/ op = "get_all_wells_data" /\ args.batch_size = DefaultBatch

NoPrev ==
    [valid |-> FALSE, format |-> "json",
     request |-> Request([api_key |-> "", base_url |-> ""], "json", 0, 0, NoFilters),
     outcome |-> Outcome("fail", FALSE, "top", <<>>),
     ret |-> Returned(None)]

(***************************************************************************)
(* The state machine                                                       *)
(***************************************************************************)
Init ==
    /\ client \in [api_key : ApiKeys, base_url : {BaseUrl}]
    /\ dataset \in Datasets
    /\ pc = "idle"
    /\ op = "none"
    /\ args = NoArgs
    /\ all_records = ListOf(<<>>, <<>>)
    /\ offset = 0
    /\ exchanges = <<>>
    /\ stdout = <<>>
    /\ ret = Returned(None)
    /\ prev = NoPrev
    /\ file = NoFile
    /\ output = NoOutput

\* get_all_wells_data is called: all_records = [], offset = 0.
CallGetAll(format_type, batch_size) ==
    /\ pc = "idle"
    /\ pc' = "paging"
    /\ op' = "get_all_wells_data"
    /\ args' = [NoArgs EXCEPT !.format_type = format_type,
                              !.batch_size = batch_size]
    /\ all_records' = ListOf(<<>>, <<>>)
    /\ offset' = 0
    /\ exchanges' = <<>>
    /\ stdout' = <<>>
    /\ ret' = Returned(None)
    /\ prev' = NoPrev
    /\ UNCHANGED <<client, dataset, file, output>>

\* One iteration of the loop: the page request, and what the loop does with
\* its result; on a break, the return.
PageRequest ==
    /\ pc = "paging"
    /\ \E outcome \in Outcomes(dataset, args.format_type, offset, args.batch_size) :
        LET request == Request(client, args.format_type, offset,
                               args.batch_size, NoFilters)
            got == GetWellsData(args.format_type, outcome)
            step == PageStep(all_records, offset, args.batch_size,
                             args.format_type, got.result.value)
        IN /\ exchanges' = Append(exchanges, Exchange(request, outcome, got.result))
           /\ IF got.result.exc # "none"
              THEN /\ pc' = "done"
                   /\ ret' = got.result
                   /\ stdout' = stdout \o got.printed
                   /\ UNCHANGED <<all_records, offset>>
              ELSE /\ all_records' = step.all_records
                   /\ offset' = step.offset
                   /\ stdout' = stdout \o got.printed \o step.printed
                   /\ pc' = IF step.stop THEN "done" ELSE "paging"
                   /\ ret' = IF step.exc # "none" THEN Raised(step.exc)
                             ELSE IF step.stop THEN Returned(step.all_records)
                             ELSE ret
    /\ UNCHANGED <<client, dataset, op, args, prev, file, output>>

\* Variant of filter_by_state: the fetch comes first, the state name is
\* validated afterwards.
CallFilterByStateFetchFirst(state_name, format_type) ==
    /\ pc = "idle"
    /\ pc' = "done"
    /\ op' = "filter_by_state"
    /\ args' = [NoArgs EXCEPT !.format_type = format_type,
                              !.state_name = state_name]
    /\ \E outcome \in Outcomes(dataset, format_type, DefaultOffset, FilterLimit) :
        LET request == Request(client, format_type, DefaultOffset,
                               FilterLimit, NoFilters)
            got == GetWellsData(format_type, outcome)
        IN /\ exchanges' = <<Exchange(request, outcome, got.result)>>
           /\ stdout' = got.printed
           /\ ret' = IF ~IsStateKey(Lower(state_name))
                     THEN Returned(InvalidState)
                     ELSE IF got.result.exc # "none" THEN got.result
                     ELSE FilterByState(state_name, format_type,
                                        got.result.value)
    /\ prev' = NoPrev
    /\ UNCHANGED <<client, dataset, all_records, offset, file, output>>

\* filter_by_state(state_name, format_type)
CallFilterByState(state_name, format_type) ==
    /\ pc = "idle"
    /\ pc' = "done"
    /\ op' = "filter_by_state"
    /\ args' = [NoArgs EXCEPT !.format_type = format_type,
                              !.state_name = state_name]
    /\ IF ~IsStateKey(Lower(state_name))
       THEN /\ exchanges' = <<>>
            /\ stdout' = <<>>
            /\ ret' = Returned(InvalidState)
       ELSE \E outcome \in Outcomes(dataset, format_type, DefaultOffset, FilterLimit) :
            LET request == Request(client, format_type, DefaultOffset,
                                   FilterLimit, NoFilters)
                got == GetWellsData(format_type, outcome)
            IN /\ exchanges' = <<Exchange(request, outcome, got.result)>>
               /\ stdout' = got.printed
               /\ ret' = IF got.result.exc # "none" THEN got.result
                         ELSE FilterByState(state_name, format_type,
                                            got.result.value)
    /\ prev' = NoPrev
    /\ UNCHANGED <<client, dataset, all_records, offset, file, output>>

\* filter_by_offshore(offshore, format_type)
CallFilterByOffshore(offshore, format_type) ==
    /\ pc = "idle"
    /\ pc' = "done"
    /\ op' = "filter_by_offshore"
    /\ args' = [NoArgs EXCEPT !.format_type = format_type,
                              !.offshore = offshore]
    /\ \E outcome \in Outcomes(dataset, format_type, DefaultOffset, FilterLimit) :
        LET request == Request(client, format_type, DefaultOffset,
                               FilterLimit, NoFilters)
            got == GetWellsData(format_type, outcome)
        IN /\ exchanges' = <<Exchange(request, outcome, got.result)>>
           /\ stdout' = got.printed
           /\ ret' = IF got.result.exc # "none" THEN got.result
                     ELSE FilterByOffshore(offshore, format_type,
                                           got.result.value)
    /\ client' = SelfAfterOffshore(client)
    /\ prev' = IF offshore /\ prev.valid /\ prev.format = format_type
               THEN prev ELSE NoPrev
    /\ UNCHANGED <<dataset, all_records, offset, file, output>>

\* filter_by_status(status, format_type)
CallFilterByStatus(status, format_type) ==
    /\ pc = "idle"
    /\ pc' = "done"
    /\ op' = "filter_by_status"
    /\ args' = [NoArgs EXCEPT !.format_type = format_type, !.status = status]
    /\ \E outcome \in Outcomes(dataset, format_type, DefaultOffset, DefaultLimit) :
        LET request == Request(client, format_type, DefaultOffset,
                               DefaultLimit, StatusFilters(status))
            got == GetWellsData(format_type, outcome)
        IN /\ exchanges' = <<Exchange(request, outcome, got.result)>>
           /\ stdout' = got.printed
           /\ ret' = FilterByStatus(got.result)
    /\ prev' = NoPrev
    /\ UNCHANGED <<client, dataset, all_records, offset, file, output>>

\* get_wells_data(format_type, offset, limit), called directly
CallGetWellsData(format_type, off, limit) ==
    /\ pc = "idle"
    /\ pc' = "done"
    /\ op' = "get_wells_data"
    /\ args' = [NoArgs EXCEPT !.format_type = format_type, !.offset = off,
                              !.limit = limit]
    /\ \E outcome \in Outcomes(dataset, format_type, off, limit) :
        LET request == Request(client, format_type, off, limit, NoFilters)
            got == GetWellsData(format_type, outcome)
        IN /\ exchanges' = <<Exchange(request, outcome, got.result)>>
           /\ stdout' = got.printed
           /\ ret' = got.result
    /\ prev' = NoPrev
    /\ UNCHANGED <<client, dataset, all_records, offset, file, output>>

\* save_to_file(data, filename, format_type), called directly
CallSaveToFile(data, format_type, io) ==
    /\ pc = "idle"
    /\ pc' = "done"
    /\ op' = "save_to_file"
    /\ args' = [NoArgs EXCEPT !.format_type = format_type, !.data = data,
                              !.io = io]
    /\ LET s == SaveToFile(data, format_type, io)
       IN /\ file' = s.file
          /\ stdout' = s.printed
          /\ ret' = IF s.exc = "none" THEN Returned(None) ELSE Raised(s.exc)
    /\ exchanges' = <<>>
    /\ prev' = NoPrev
    /\ UNCHANGED <<client, dataset, all_records, offset, output>>

\* The call that has just ended was made by main: the rest of main, with
\* or without --save.
MainFinish(save, io) ==
    /\ pc = "done"
    /\ MainSelects
    /\ pc' = "exited"
    /\ LET m == Main(op, ret, save, args.format_type, io)
       IN /\ output' = m.output
          /\ file' = m.file
    /\ args' = [args EXCEPT !.io = io]
    /\ UNCHANGED <<client, dataset, op, all_records, offset, exchanges,
                   stdout, ret, prev>>

\* The caller takes the result; the call's locals are gone and the client
\* is ready for the next call.
Return ==
    /\ pc \in {"done", "exited"}
    /\ pc' = "idle"
    /\ op' = "none"
    /\ args' = NoArgs
    /\ all_records' = ListOf(<<>>, <<>>)
    /\ offset' = 0
    /\ exchanges' = <<>>
    /\ stdout' = <<>>
    /\ ret' = Returned(None)
    /\ prev' = IF op = "filter_by_offshore" /\ args.offshore
               THEN [valid |-> TRUE, format |-> args.format_type,
                     request |-> exchanges[1].request,
                     outcome |-> exchanges[1].outcome,
                     ret |-> ret]
               ELSE NoPrev
    /\ file' = NoFile
    /\ output' = NoOutput
    /\ UNCHANGED <<client, dataset>>

Next ==
    \/ \E f \in Formats, b \in BatchSizes \cup {DefaultBatch} : CallGetAll(f, b)
    \/ PageRequest
    \/ \E n \in StateNames, f \in Formats : CallFilterByState(n, f)
    \/ \E o \in BOOLEAN, f \in Formats : CallFilterByOffshore(o, f)
    \/ \E s \in Statuses, f \in Formats : CallFilterByStatus(s, f)
    \/ \E f \in Formats, o \in Offsets, l \in Limits : CallGetWellsData(f, o, l)
    \/ \E d \in SaveData, f \in Formats, io \in IoOutcomes : CallSaveToFile(d, f, io)
    \/ \E save \in BOOLEAN, io \in IoOutcomes : MainFinish(save, io)
    \/ Return

Spec == Init /\ [][Next]_vars

\* One call of a filter against an upstream that holds more records than
\* the limit the filters ask for.
LongDatasets == {LongData(FilterLimit + k) : k \in 1..(MaxExtra + 1)}

LongInit ==
    /\ client \in [api_key : ApiKeys, base_url : {BaseUrl}]
    /\ dataset \in LongDatasets
    /\ pc = "idle"
    /\ op = "none"
    /\ args = NoArgs
    /\ all_records = ListOf(<<>>, <<>>)
    /\ offset = 0
    /\ exchanges = <<>>
    /\ stdout = <<>>
    /\ ret = Returned(None)
    /\ prev = NoPrev
    /\ file = NoFile
    /\ output = NoOutput

LongNext ==
    \/ \E n \in StateNames, f \in Formats : CallFilterByState(n, f)
    \/ \E o \in BOOLEAN, f \in Formats : CallFilterByOffshore(o, f)

LongSpec == LongInit /\ [][LongNext]_vars

\* get_all_wells_data runs to its return once called: the loop is
\* synchronous, an iteration that can run does run.
LiveSpec == Spec /\ WF_vars(PageRequest)

(***************************************************************************)
(* Vocabulary of the properties                                            *)
(***************************************************************************)
\* The names the examples print as the available states.
states == <<
    <<"g", "u", "j", "a", "r", "a", "t">>,
    <<"r", "a", "j", "a", "s", "t", "h", "a", "n">>,
    <<"a", "s", "s", "a", "m">>,
    <<"t", "r", "i", "p", "u", "r", "a">>,
    <<"a", "n", "d", "h", "r", "a", "_", "p", "r", "a", "d", "e", "s", "h">>,
    <<"t", "a", "m", "i", "l", "n", "a", "d", "u">>,
    <<"w", "e", "s", "t", "_", "b", "e", "n", "g", "a", "l">>,
    <<"j", "h", "a", "r", "k", "h", "a", "n", "d">>,
    <<"m", "a", "d", "h", "y", "a", "_", "p", "r", "a", "d", "e", "s", "h">>,
    <<"o", "t", "h", "e", "r", "_", "s", "t", "a", "t", "e", "s">>
>>

InGetAll == op = "get_all_wells_data"
InGetAllJson == InGetAll /\ args.format_type = "json"

\* The exchange ended in a transport or decode failure.
Failed(ex) == ex.outcome.net = "fail" \/ ~ex.outcome.valid

\* The upstream answered with exactly the records the request asked for.
Honest(ex) ==
    /\ ex.outcome.net = "ok"
    /\ ex.outcome.valid
    /\ ex.outcome.page = Slice(dataset, ex.request.offset, ex.request.limit)

\* ... and delivered them where get_all_wells_data reads them.
HonestPage(ex) == Honest(ex) /\ ex.outcome.shape = "nested"

AllHonestPages == \A i \in 1..Len(exchanges) : HonestPage(exchanges[i])

HonestOrFailed ==
    \A i \in 1..Len(exchanges) : Honest(exchanges[i]) \/ Failed(exchanges[i])

\* The records of the pages of exchanges 1..k, in order.
RECURSIVE PagesUpTo(_, _)
PagesUpTo(exs, k) ==
    IF k = 0 THEN <<>>
    ELSE PagesUpTo(exs, k - 1) \o exs[k].outcome.page

\* The coercion rule of the specification: text is parsed, 0 when it is no
\* number; a number is used as it is; a missing field is 0.
Coerce(record, field) ==
    LET v == Get(record, field)
    IN IF v.tag = "num" THEN v.num
       ELSE IF v.tag = "text" /\ ParseFloat(v.text).ok THEN ParseFloat(v.text).val
       ELSE 0

\* The single fetch of a filter succeeded with a JSON body whose records are
\* at top-level `records`.
FetchedJson ==
    /\ args.format_type = "json"
    /\ Len(exchanges) = 1
    /\ exchanges[1].outcome.net = "ok"
    /\ exchanges[1].outcome.valid
    /\ exchanges[1].outcome.shape = "top"

Fetched == exchanges[1].outcome.page

ValidStateCall ==
    pc = "done" /\ op = "filter_by_state" /\ IsStateKey(Lower(args.state_name))

(***************************************************************************)
(* Properties                                                              *)
(***************************************************************************)
\* C1: in get_all_wells_data with format json, every page request is sent
\* with an offset equal to the number of records accumulated so far, and the
\* offsets of successive requests strictly increase, whatever the upstream
\* returns.
C1_OffsetIsRecordCount ==
    InGetAllJson =>
        /\ pc = "paging" => offset = Len(all_records.records)
        /\ \A i, j \in 1..Len(exchanges) :
              i < j => exchanges[i].request.offset < exchanges[j].request.offset

\* C2: against an upstream that answers every request with the honest slice
\* and never fails, get_all_wells_data (json, B) asks for offsets 0, B, 2B,
\* ... with limit B, asks nothing more after the first page shorter than B,
\* and returns the N records of the dataset once each, in upstream order.
C2_HonestPagination ==
    (InGetAllJson /\ AllHonestPages) =>
        /\ \A i \in 1..Len(exchanges) :
              /\ exchanges[i].request.offset = (i - 1) * args.batch_size
              /\ exchanges[i].request.limit = args.batch_size
        /\ \A i \in 1..(Len(exchanges) - 1) :
              Len(exchanges[i].outcome.page) = args.batch_size
        /\ pc = "done" => ret = Returned(ListOf(dataset, <<>>))

C2_Witness ==
    /\ pc = "done" /\ InGetAllJson /\ AllHonestPages
    /\ Len(dataset) = 2 * args.batch_size + 1
    /\ args.batch_size = 2
    /\ Len(exchanges) = 3
    /\ Len(exchanges[3].outcome.page) = 1
    /\ ret.value.records = dataset

\* C3: when every request fails or is answered with the honest slice,
\* get_all_wells_data makes at most floor(N / batch_size) + 1 page requests,
\* and once called it returns.
C3_BoundedRequests ==
    (InGetAll /\ HonestOrFailed) =>
        Len(exchanges) <= (Len(dataset) \div args.batch_size) + 1

\* C3: the bound on the page requests holds throughout, and a call whose
\* requests all fail or are answered honestly leaves the loop.
C3_Terminates ==
    /\ [](C3_BoundedRequests)
    /\ (pc = "paging" /\ HonestOrFailed) ~> (pc = "done" \/ ~HonestOrFailed)

C3_Witness ==
    /\ pc = "done" /\ InGetAllJson /\ HonestOrFailed
    /\ Len(dataset) >= 2 * args.batch_size
    /\ Len(exchanges) = (Len(dataset) \div args.batch_size) + 1

\* C4: in get_all_wells_data (json) no request follows a failed one, and
\* when the k-th request fails the call returns the records of pages
\* 1..k-1, in order.
C4_PartialResultOnFailure ==
    InGetAllJson =>
        /\ \A i \in 1..(Len(exchanges) - 1) : ~Failed(exchanges[i])
        /\ (Len(exchanges) >= 1 /\ Failed(exchanges[Len(exchanges)])) =>
              /\ pc \in {"done", "exited"}
              /\ ret = Returned(ListOf(PagesUpTo(exchanges, Len(exchanges) - 1),
                                       <<>>))

C4_Witness ==
    /\ pc = "done" /\ InGetAllJson
    /\ Len(exchanges) >= 3
    /\ Failed(exchanges[Len(exchanges)])
    /\ Len(ret.value.records) >= 2

\* C5: when a page request of get_all_wells_data fails, what the call
\* returns carries the failure, so that the caller's test ("error" in data)
\* tells a retrieval cut short from one that reached the end of the data.
C5_FailureReturned ==
    (pc = "done" /\ InGetAll /\ ret.exc = "none"
        /\ Len(exchanges) >= 1 /\ Failed(exchanges[Len(exchanges)])) =>
        HasError(ret.value)

\* C6: filter_by_state and filter_by_offshore never raise, whatever the
\* fields of the fetched records hold, and keep a record according to its
\* safely coerced field (absent or non-numeric text counts as 0).
C6_SafeCoercion ==
    (pc = "done" /\ op \in {"filter_by_state", "filter_by_offshore"}) =>
        /\ ret.exc \notin {"ValueError", "TypeError"}
        /\ (FetchedJson /\ ret.exc = "none") =>
              \A i \in 1..Len(ret.value.records) :
                 LET r == ret.value.records[i]
                 IN IF op = "filter_by_state"
                    THEN Coerce(r, StateField(Lower(args.state_name))) > 0
                    ELSE IF args.offshore THEN Coerce(r, "offshore") > 0
                    ELSE Coerce(r, "offshore") = 0

\* C7: for a recognized state key and a successful JSON response,
\* filter_by_state returns exactly the fetched records whose mapped state
\* field, coerced to a number, is > 0.
C7_StateFilterExact ==
    (ValidStateCall /\ FetchedJson) =>
        /\ ret.exc = "none"
        /\ ret.value.records =
              SelectSeq(Fetched,
                        LAMBDA r : Coerce(r, StateField(Lower(args.state_name))) > 0)

\* C8: filter_by_state called with a name that is not, case-insensitively,
\* one of the ten state keys returns a failure whose message lists the ten
\* keys, and no records.
C8_InvalidStateListsKeys ==
    (pc = "done" /\ op = "filter_by_state"
        /\ \A i \in 1..Len(states) : Lower(args.state_name) # states[i]) =>
        /\ ret.exc = "none"
        /\ ret.value.type = "dict"
        /\ ret.value.keys = {"error"}
        /\ ret.value.error.kind = "Invalid state name. Available states: "
        /\ ret.value.error.names = states
        /\ Len(states) = 10
        /\ ret.value.records = <<>>

C8_Witness ==
    /\ pc = "done" /\ op = "filter_by_state"
    /\ args.state_name = <<"a", "t", "l", "a", "n", "t", "i", "s">>
    /\ HasError(ret.value)
    /\ Len(ret.value.error.names) = 10

\* C9: for a successful JSON response filter_by_offshore(True) keeps exactly
\* the fetched records whose coerced `offshore` is > 0, and
\* filter_by_offshore(False) exactly those whose coerced `offshore` is 0.
C9_OffshoreFilterExact ==
    (pc = "done" /\ op = "filter_by_offshore" /\ FetchedJson) =>
        /\ ret.exc = "none"
        /\ ret.value.records =
              SelectSeq(Fetched,
                        LAMBDA r : IF args.offshore
                                   THEN Coerce(r, "offshore") > 0
                                   ELSE Coerce(r, "offshore") = 0)

\* C10: filter_by_status issues exactly one request, with the query entry
\* filters[status]=<status>, offset 0 and limit 10, and returns what the
\* transport returned, the records of a JSON body included, unchanged.
C10_StatusDelegated ==
    (pc = "done" /\ op = "filter_by_status") =>
        /\ Len(exchanges) = 1
        /\ exchanges[1].request.filters = ("filters[status]" :> args.status)
        /\ exchanges[1].request.offset = 0
        /\ exchanges[1].request.limit = 10
        /\ exchanges[1].request.format = args.format_type
        /\ ret = exchanges[1].result
        /\ (args.format_type = "json" /\ exchanges[1].outcome.net = "ok"
                /\ exchanges[1].outcome.valid) =>
              ret = Returned(JsonBody(exchanges[1].outcome.shape,
                                      exchanges[1].outcome.page))

C10_Witness ==
    /\ pc = "done" /\ op = "filter_by_status" /\ FetchedJson
    /\ Len(ret.value.records) >= 2
    /\ Get(ret.value.records[1], "status") # Get(ret.value.records[2], "status")

\* a is b with some elements left out, the others in b's order.
RECURSIVE IsSubseq(_, _)
IsSubseq(a, b) ==
    IF a = <<>> THEN TRUE
    ELSE IF b = <<>> THEN FALSE
    ELSE IF a[1] = b[1] THEN IsSubseq(Tail(a), Tail(b))
    ELSE IsSubseq(a, Tail(b))

IsPrefix(a, b) == Len(a) <= Len(b) /\ SubSeq(b, 1, Len(a)) = a

\* The records of the pages of exchanges 1..k that arrived at
\* result.records of a decoded JSON body, in request order.
RECURSIVE NestedPagesUpTo(_, _)
NestedPagesUpTo(exs, k) ==
    IF k = 0 THEN <<>>
    ELSE NestedPagesUpTo(exs, k - 1)
            \o (IF exs[k].outcome.net = "ok" /\ exs[k].outcome.valid
                   /\ exs[k].outcome.shape = "nested"
                THEN exs[k].outcome.page ELSE <<>>)

FilterReturnedJson ==
    /\ pc = "done" /\ op \in {"filter_by_state", "filter_by_offshore"}
    /\ args.format_type = "json"
    /\ Len(exchanges) = 1
    /\ ret.exc = "none"
    /\ ~HasError(ret.value)

\* C11 (state part): the list of get_all_wells_data is the pages received,
\* in request order, each in upstream order; what filter_by_state and
\* filter_by_offshore return is a subsequence of the fetched records.
C11_OrderOfRecords ==
    /\ InGetAllJson =>
          all_records.records = NestedPagesUpTo(exchanges, Len(exchanges))
    /\ FilterReturnedJson =>
          IsSubseq(ret.value.records, exchanges[1].outcome.page)

\* C11: order is preserved end to end: the state part above holds
\* throughout, and while get_all_wells_data runs its list only grows by
\* appending (the earlier elements never change).
C11_OrderPreserved ==
    /\ [](C11_OrderOfRecords)
    /\ [][(pc = "paging" /\ pc' # "idle") =>
            IsPrefix(all_records.records, all_records'.records)]_vars

C11_Witness ==
    /\ FilterReturnedJson
    /\ Len(ret.value.records) >= 2
    /\ Len(exchanges[1].outcome.page) >= Len(ret.value.records) + 2
    /\ ret.value.records[1] = exchanges[1].outcome.page[1]

\* C12: a filter_by_offshore(True) call that follows another one on the same
\* client, and is answered by the upstream as the first was, sends the same
\* request and returns the same result.
C12_OffshoreRepeatable ==
    (pc = "done" /\ op = "filter_by_offshore" /\ args.offshore
        /\ prev.valid /\ exchanges[1].outcome = prev.outcome) =>
        /\ exchanges[1].request = prev.request
        /\ ret = prev.ret

C12_Witness ==
    /\ pc = "done" /\ op = "filter_by_offshore" /\ args.offshore
    /\ prev.valid /\ exchanges[1].outcome = prev.outcome
    /\ args.format_type = "json"
    /\ ret.exc = "none"
    /\ Len(ret.value.records) >= 1
    /\ Len(exchanges[1].outcome.page) > Len(ret.value.records)

\* The one-request operations.
SingleFetch ==
    op \in {"get_wells_data", "filter_by_status", "filter_by_offshore"}
        \/ ValidStateCall

\* C13: every get_wells_data call is one GET; when the request fails
\* (timeout, network, non-success status) the call returns {"error": ...}
\* holding nothing decoded from a body, and no further request follows.
C13_TransportFailureIsValue ==
    /\ (pc = "done" /\ SingleFetch) => Len(exchanges) = 1
    /\ (pc = "done" /\ op = "get_wells_data") => ret = exchanges[1].result
    /\ \A i \in 1..Len(exchanges) :
          exchanges[i].outcome.net = "fail" =>
             /\ i = Len(exchanges)
             /\ pc \in {"done", "exited"}
             /\ exchanges[i].result.exc = "none"
             /\ exchanges[i].result.value.type = "dict"
             /\ exchanges[i].result.value.keys = {"error"}
             /\ exchanges[i].result.value.error.kind = "RequestException"
             /\ exchanges[i].result.value.records = <<>>
             /\ exchanges[i].result.value.result = <<>>

C13_Witness ==
    /\ pc = "done" /\ op = "get_wells_data"
    /\ exchanges[1].outcome.net = "fail"
    /\ exchanges[1].outcome.valid
    /\ Len(exchanges[1].outcome.page) >= 2
    /\ HasError(ret.value)

\* C14: with format json, a successful response whose body is not valid JSON
\* makes get_wells_data return a mapping with an `error` entry that carries
\* the decode failure; no exception reaches the caller.
C14_BadJsonIsValue ==
    \A i \in 1..Len(exchanges) :
        (exchanges[i].request.format = "json" /\ exchanges[i].outcome.net = "ok"
            /\ ~exchanges[i].outcome.valid) =>
            /\ exchanges[i].result.exc = "none"
            /\ exchanges[i].result.value.type = "dict"
            /\ exchanges[i].result.value.keys = {"error"}
            /\ exchanges[i].result.value.error.kind = "JSON decode error"
            /\ (pc = "done" /\ op = "get_wells_data") =>
                  ret = exchanges[i].result

C14_Witness ==
    /\ pc = "done" /\ op = "get_wells_data" /\ args.format_type = "json"
    /\ exchanges[1].outcome.net = "ok"
    /\ ~exchanges[1].outcome.valid
    /\ ret.exc = "none"
    /\ HasError(ret.value)

\* C15: with format xml, a successful response whose body is malformed XML
\* makes get_wells_data return a failure value; no exception reaches the
\* caller.
C15_BadXmlIsValue ==
    \A i \in 1..Len(exchanges) :
        (exchanges[i].request.format = "xml" /\ exchanges[i].outcome.net = "ok"
            /\ ~exchanges[i].outcome.valid) =>
            /\ exchanges[i].result.exc = "none"
            /\ HasError(exchanges[i].result.value)

\* C16: for csv and xml get_all_wells_data issues exactly one request, with
\* offset 0 and limit batch_size, and on success returns a list holding
\* exactly the raw payload, unchanged.
C16_RawPayloadOnce ==
    (InGetAll /\ args.format_type \in {"csv", "xml"}) =>
        /\ Len(exchanges) <= 1
        /\ pc = "done" =>
              /\ Len(exchanges) = 1
              /\ exchanges[1].request.offset = 0
              /\ exchanges[1].request.limit = args.batch_size
              /\ (exchanges[1].outcome.net = "ok" /\ exchanges[1].outcome.valid) =>
                    ret = Returned(ListOf(<<>>,
                            <<IF args.format_type = "csv"
                              THEN CsvText(exchanges[1].outcome.page)
                              ELSE XmlElement(exchanges[1].outcome.page)>>))


(***************************************************************************)
(* main's output                                                           *)
(***************************************************************************)
\* The retrieval main selected ended in an error: a request failed or its
\* body could not be decoded, the state name was not a key, or the
\* operation raised.
RetrievalError ==
    \/ \E i \in 1..Len(exchanges) : Failed(exchanges[i])
    \/ op = "filter_by_state" /\ ~IsStateKey(Lower(args.state_name))
    \/ ret.exc # "none"

\* C17: main neither prints the data nor saves a file when the retrieval it
\* selected (--state, --status, --offshore, --onshore, --all, plain fetch,
\* in any format) ended in a filter, transport or decoding error; only an
\* error-free result is printed or saved.
C17_NoOutputOnError ==
    (pc = "exited" /\ RetrievalError) =>
        (output.kind = "none" /\ file = NoFile)


(***************************************************************************)
(* save_to_file                                                            *)
(***************************************************************************)
SavedAs(format_type) ==
    pc = "done" /\ op = "save_to_file" /\ args.format_type = format_type

\* data is a non-empty list of records that all have the same field set.
UniformRecords(data) ==
    /\ data.t = "list"
    /\ data.items # <<>>
    /\ \A i \in 1..Len(data.items) :
        /\ data.items[i].t = "dict"
        /\ KeySet(data.items[i]) = KeySet(data.items[1])

\* The header and the rows of such a list: the first record's fields, and
\* every record's values under them, in list order.
HeaderOf(data) ==
    [j \in 1..Len(data.items[1].items) |-> CellText(Keys(data.items[1])[j])]

RowsOf(data) ==
    [i \in 1..Len(data.items) |->
        [j \in 1..Len(data.items[1].items) |->
            CellText(Lookup(data.items[i], Keys(data.items[1])[j], PyNone))]]

\* C18: save_to_file with format csv writes the first record's fields as
\* header and one row per record in list order when data is a non-empty
\* list of records that all have the same field set; for every other shape
\* of data it writes the string form of data.
C18_CsvHeaderAndRows ==
    (SavedAs("csv") /\ args.io = "ok") =>
        file = IF UniformRecords(args.data)
               THEN CsvFile(HeaderOf(args.data), RowsOf(args.data))
               ELSE StrFile(args.data)

\* The write of the current save_to_file call failed.
SaveFailed == WriteFile(args.data, args.format_type, args.io).exc # "none"

\* C19: save_to_file never raises to its caller; when opening, serializing
\* or writing the file fails it prints the diagnostic "Error saving file"
\* and does not print the success message "Data saved to".
C19_SaveNeverRaises ==
    (pc = "done" /\ op = "save_to_file") =>
        /\ ret = Returned(None)
        /\ SaveFailed =>
            /\ \E i \in 1..Len(stdout) : stdout[i] = "Error saving file"
            /\ \A i \in 1..Len(stdout) : stdout[i] # "Data saved to"

\* A record with an unknown field stopped the csv writer half-way.
C19_Witness ==
    /\ SavedAs("csv")
    /\ args.io = "ok"
    /\ WriteFile(args.data, args.format_type, args.io).exc = "ValueError"
    /\ file.form = "csv"
    /\ stdout = <<"Error saving file">>

\* data is made of mappings, lists, strings and numbers.
RECURSIVE JsonData(_)
JsonData(data) ==
    IF data.t \in {"num", "str"} THEN TRUE
    ELSE IF data.t \in {"list", "dict", "entry"}
    THEN \A i \in 1..Len(data.items) : JsonData(data.items[i])
    ELSE FALSE

\* ... and the keys of its mappings are strings.
RECURSIVE StringKeyed(_)
StringKeyed(data) ==
    IF data.t \in {"list", "dict"}
    THEN \A i \in 1..Len(data.items) : StringKeyed(data.items[i])
    ELSE IF data.t = "entry"
    THEN data.items[1].t = "str" /\ StringKeyed(data.items[2])
    ELSE TRUE

\* The file read back and parsed equals data.
ReadsBack == file.form = "json" /\ PyEqual(JsonLoad(file.text), args.data)

\* C20 as stated: for every data made of mappings, lists, strings and
\* numbers, save_to_file(data, path, "json") followed by reading the file
\* back and parsing it yields a structure equal to data.
C20_JsonRoundTrip ==
    (SavedAs("json") /\ args.io = "ok" /\ JsonData(args.data)) => ReadsBack

\* C20, amended: for every data made of mappings whose keys are strings,
\* of lists, strings and finite numbers, a save_to_file(data, path, "json") that
\* writes the file, followed by reading the file back and parsing it,
\* yields a structure equal to data.
C20_JsonRoundTripStringKeys ==
    (SavedAs("json") /\ args.io = "ok" /\ JsonData(args.data)
        /\ StringKeyed(args.data)) => ReadsBack

\* A nested dict holding a string with a quote, a backslash and a newline
\* was saved and reads back.
C20_Witness ==
    /\ SavedAs("json")
    /\ args.io = "ok"
    /\ args.data.t = "dict"
    /\ JsonData(args.data)
    /\ StringKeyed(args.data)
    /\ \E i \in 1..Len(args.data.items) :
            args.data.items[i].items[2].t = "list"
    /\ \E i \in 1..Len(file.text) : file.text[i] = "\\"
    /\ ReadsBack


(***************************************************************************)
(* The short-page test                                                     *)
(***************************************************************************)
\* What get_all_wells_data (json) returns for data when every page request
\* is answered with the honest slice: the loop body applied from offset off
\* until it breaks.
RECURSIVE HonestLoop(_, _, _, _)
HonestLoop(all, off, data, batch_size) ==
    LET step == PageStep(all, off, batch_size, "json",
                         JsonBody("nested", Slice(data, off, batch_size)))
    IN IF step.stop
       THEN step.all_records.records
       ELSE HonestLoop(step.all_records, step.offset, data, batch_size)

HonestGetAll(data, batch_size) ==
    HonestLoop(ListOf(<<>>, <<>>), 0, data, batch_size)

\* The dataset ends with a full page that follows a full page.
ExactMultiple(n, batch_size) == n % batch_size = 0 /\ n >= 2 * batch_size

\* C21 as stated: there is a dataset whose size is an exact multiple of
\* batch_size (a final full page preceded by a full page), served honestly
\* and without failures, for which get_all_wells_data returns fewer records
\* than the dataset holds.
C21_StopsEarlyOnExactMultiple ==
    \E data \in Datasets \cup {dataset}, b \in BatchSizes :
        /\ ExactMultiple(Len(data), b)
        /\ Len(HonestGetAll(data, b)) < Len(data)

\* C21, amended: the short-page test never makes get_all_wells_data miss a
\* record of an honestly served dataset; when the size is an exact multiple
\* of batch_size the last full page is followed by one more request, whose
\* page is empty, and every record is returned.
C21_ExactMultipleCostsOneRequest ==
    (pc = "done" /\ InGetAllJson /\ AllHonestPages
        /\ ExactMultiple(Len(dataset), args.batch_size)) =>
        /\ Len(exchanges) = (Len(dataset) \div args.batch_size) + 1
        /\ exchanges[Len(exchanges)].outcome.page = <<>>
        /\ ret = Returned(ListOf(dataset, <<>>))
        /\ HonestGetAll(dataset, args.batch_size) = dataset

C21_Witness ==
    /\ pc = "done" /\ InGetAllJson /\ AllHonestPages
    /\ args.batch_size = 2
    /\ Len(dataset) = 4
    /\ Len(exchanges) = 3
    /\ Len(exchanges[2].outcome.page) = 2
    /\ Len(ret.value.records) = 4

(***************************************************************************)
(* Where the records are read                                              *)
(***************************************************************************)
\* Exchange i was answered with a well-formed JSON body that has its
\* records at the given place.
AnsweredAt(i, shape) ==
    /\ args.format_type = "json"
    /\ Len(exchanges) >= i
    /\ exchanges[i].outcome.net = "ok"
    /\ exchanges[i].outcome.valid
    /\ exchanges[i].outcome.shape = shape

JsonFilterCall ==
    /\ pc = "done"
    /\ ValidStateCall \/ op = "filter_by_offshore"
    /\ args.format_type = "json"

\* C22: get_all_wells_data takes each page's records only from
\* result.records, filter_by_state and filter_by_offshore only from
\* top-level records; a successful response with its records at top-level
\* records makes get_all_wells_data stop on its first page and return an
\* empty list, with no failure reported.
C22_NestingDepths ==
    /\ (pc = "done" /\ InGetAll /\ AnsweredAt(1, "top")) =>
          /\ Len(exchanges) = 1
          /\ ret = Returned(ListOf(<<>>, <<>>))
          /\ stdout = <<>>
    /\ (pc = "done" /\ InGetAllJson /\ ret.exc = "none") =>
          ret.value.records = NestedPagesUpTo(exchanges, Len(exchanges))
    /\ (JsonFilterCall /\ AnsweredAt(1, "nested")) =>
          /\ ret.exc = "none"
          /\ ret.value.records = <<>>
          /\ ret.value.count = 0
    /\ (JsonFilterCall /\ AnsweredAt(1, "top") /\ ret.exc = "none") =>
          IsSubseq(ret.value.records, Fetched)

\* A first page of two records at top-level records, and an empty result.
C22_Witness ==
    /\ pc = "done" /\ InGetAll /\ AnsweredAt(1, "top")
    /\ args.batch_size = 2
    /\ Len(exchanges[1].outcome.page) = 2
    /\ Len(dataset) >= 2
    /\ ret.value.records = <<>>
    /\ stdout = <<>>

(***************************************************************************)
(* The single fetch of the filters                                         *)
(***************************************************************************)
\* The place of a record in the upstream dataset, counted from 1.
Position(record) == Get(record, "sl_no").num \div Scale

\* The records a returned value holds, wherever it holds them.
OutputRecords(v) == v.records \o v.result

FilterCall == pc = "done" /\ (ValidStateCall \/ op = "filter_by_offshore")

\* One request, with offset 0, limit 1000 and no filter parameter.
OneFetchOfThousand ==
    /\ Len(exchanges) = 1
    /\ exchanges[1].request.offset = 0
    /\ exchanges[1].request.limit = 1000
    /\ DOMAIN exchanges[1].request.filters = {}

\* Every record of the output is one of the first 1000 of the dataset.
WithinFirstThousand ==
    \A i \in 1..Len(OutputRecords(ret.value)) :
        LET p == Position(OutputRecords(ret.value)[i])
        IN p \in 1..1000 /\ p <= Len(dataset)
              /\ dataset[p] = OutputRecords(ret.value)[i]

\* C23 as stated: filter_by_state (valid key) and filter_by_offshore each
\* issue exactly one page request, with offset 0, limit 1000 and no filter
\* parameters, and never paginate; their output contains only records from
\* the first 1000 of the upstream dataset.
C23_FirstThousandOnly ==
    FilterCall => (OneFetchOfThousand /\ WithinFirstThousand)

\* C23, amended: the one request is as stated; the output contains only
\* records of the page the upstream answered with, hence only records from
\* the first 1000 of the dataset when the upstream returns no more records
\* than the limit asked for: a matching record at position >= 1000 is then
\* never returned.
C23_OnePageOfThousand ==
    FilterCall =>
        /\ OneFetchOfThousand
        /\ \A i \in 1..Len(OutputRecords(ret.value)) :
              Position(OutputRecords(ret.value)[i])
                  <= Len(exchanges[1].outcome.page)
        /\ Len(exchanges[1].outcome.page) <= exchanges[1].request.limit
              => WithinFirstThousand

\* The record after the first 1000 is an offshore well; the upstream
\* answered with the first 1000, and the offshore wells returned stop there.
C23_Witness ==
    /\ pc = "done" /\ op = "filter_by_offshore" /\ args.offshore
    /\ AnsweredAt(1, "top")
    /\ Honest(exchanges[1])
    /\ Len(dataset) > 1000
    /\ Coerce(dataset[1001], "offshore") > 0
    /\ Len(exchanges[1].outcome.page) = 1000
    /\ ret.exc = "none"
    /\ ret.value.records # <<>>
    /\ WithinFirstThousand

(***************************************************************************)
(* The failure test                                                        *)
(***************************************************************************)
\* The request was answered, with a body that decodes.
Succeeded(ex) == ex.outcome.net = "ok" /\ ex.outcome.valid

\* C24: a successful response is never classified as a failure by
\* get_all_wells_data, filter_by_state, filter_by_offshore and main: a
\* fetched CSV text is returned or written whatever it contains, the word
\* "error" included.
C24_SuccessIsNoFailure ==
    /\ (pc = "done" /\ InGetAll /\ Len(exchanges) >= 1
            /\ Succeeded(exchanges[Len(exchanges)])) =>
          /\ ret.exc = "none"
          /\ \A i \in 1..Len(stdout) : stdout[i] # "Error at offset"
          /\ args.format_type # "json" =>
                ret.value.raw = <<exchanges[1].result.value>>
    /\ (FilterCall /\ args.format_type # "json" /\ Succeeded(exchanges[1])) =>
          ret = exchanges[1].result
    /\ (pc = "exited" /\ ret.exc = "none" /\ Len(exchanges) >= 1
            /\ \A i \in 1..Len(exchanges) : Succeeded(exchanges[i])) =>
          /\ output.exc = "none"
          /\ output.kind \in {"printed", "saved"}
          /\ output.data = ret.value

(***************************************************************************)
(* Offshore and onshore                                                    *)
(***************************************************************************)
\* What filter_by_offshore with the other flag returns for the response the
\* current call fetched.
OtherFlag ==
    FilterByOffshore(~args.offshore, args.format_type, exchanges[1].result.value)

Among(record, records) == \E i \in 1..Len(records) : records[i] = record

Recognized(state_name) ==
    \E i \in 1..Len(states) : states[i] = Lower(state_name)

\* C26: filter_by_state validates before fetching: for a state name that is
\* no key the failure is returned and no request was issued; a request is
\* issued only for a name that was accepted.
C26_ValidatesBeforeFetching ==
    (op = "filter_by_state" /\ pc \in {"done", "exited"}) =>
        IF Recognized(args.state_name)
        THEN Len(exchanges) = 1
        ELSE /\ exchanges = <<>>
             /\ stdout = <<>>
             /\ ret.exc = "none"
             /\ ret.value.keys = {"error"}

C26_Witness ==
    /\ op = "filter_by_state" /\ pc = "done"
    /\ args.state_name = <<"a", "t", "l", "a", "n", "t", "i", "s">>
    /\ dataset # <<>>
    /\ exchanges = <<>>
    /\ ret.value.keys = {"error"}

====
